---------------------------- MODULE Spec2Model ----------------------------
(***************************************************************************)
(* Model of mozci/task.py: the TestTask outcome population                 *)
(* (retrieve_results), the group identifier normalisation, the             *)
(* configuration key extraction and the GroupSummary / LabelSummary        *)
(* aggregation.                                                            *)
(*                                                                         *)
(* Python strings that the code inspects character by character (labels,   *)
(* group identifiers, suite names) are tuples of one-character strings.    *)
(* Optional[T] values are tuples of length at most one: None is <<>> and a *)
(* present value x is <<x>>.                                               *)
(***************************************************************************)
EXTENDS Integers, Sequences, FiniteSets, TLC

None == <<>>
Some(x) == <<x>>

---------------------------------------------------------------------------
(* Python str operations used by the source.                               *)

\* s.startswith(p)
StartsWith(s, p) ==
  /\ Len(p) <= Len(s)
  /\ SubSeq(s, 1, Len(p)) = p

\* sub in s
Contains(s, sub) ==
  \E i \in 0..(Len(s) - Len(sub)) : SubSeq(s, i + 1, i + Len(sub)) = sub

\* s[n:]
DropFirst(s, n) == SubSeq(s, n + 1, Len(s))

\* s.find(sub) + 1: the position of the leftmost occurrence, 0 when there is none
Find(s, sub) ==
  IF Contains(s, sub)
  THEN 1 + CHOOSE i \in 0..(Len(s) - Len(sub)) :
             /\ SubSeq(s, i + 1, i + Len(sub)) = sub
             /\ \A j \in 0..(i - 1) : SubSeq(s, j + 1, j + Len(sub)) # sub
  ELSE 0

\* s.replace(old, new): leftmost non-overlapping occurrences, old non-empty
RECURSIVE Replace(_, _, _)
Replace(s, old, new) ==
  LET k == Find(s, old)
  IN  IF k = 0 THEN s
      ELSE SubSeq(s, 1, k - 1) \o new \o Replace(DropFirst(s, k - 1 + Len(old)), old, new)

\* s.split(sep) for a one-character separator: always at least one part
RECURSIVE Split(_, _)
Split(s, sep) ==
  IF \A i \in 1..Len(s) : s[i] # sep THEN <<s>>
  ELSE LET k == CHOOSE i \in 1..Len(s) : s[i] = sep /\ \A j \in 1..(i - 1) : s[j] # sep
       IN  <<SubSeq(s, 1, k - 1)>> \o Split(DropFirst(s, k), sep)

\* sep.join(parts)
RECURSIVE Join(_, _)
Join(parts, sep) ==
  IF Len(parts) = 0 THEN <<>>
  ELSE IF Len(parts) = 1 THEN parts[1]
  ELSE parts[1] \o sep \o Join(Tail(parts), sep)

Digits == {"0", "1", "2", "3", "4", "5", "6", "7", "8", "9"}

\* s.isdigit(): non-empty and every character a digit
IsDigit(s) == Len(s) > 0 /\ \A i \in 1..Len(s) : s[i] \in Digits

Whitespace == {" ", "\t", "\n", "\r"}

\* s.strip()
RECURSIVE LStrip(_)
LStrip(s) == IF Len(s) > 0 /\ Head(s) \in Whitespace THEN LStrip(Tail(s)) ELSE s

RECURSIVE RStrip(_)
RStrip(s) ==
  IF Len(s) > 0 /\ s[Len(s)] \in Whitespace THEN RStrip(SubSeq(s, 1, Len(s) - 1)) ELSE s

Strip(s) == RStrip(LStrip(s))

---------------------------------------------------------------------------
(* Status enum and the suite tables.                                       *)

PASS == "PASS"
FAIL == "FAIL"
INTERMITTENT == "INTERMITTENT"
Status == {PASS, FAIL, INTERMITTENT}

SUITES ==
  << <<"m","o","c","h","i","t","e","s","t","-","p","l","a","i","n","-","g","p","u">>,
     <<"m","o","c","h","i","t","e","s","t","-","p","l","a","i","n">>,
     <<"m","o","c","h","i","t","e","s","t","-","c","h","r","o","m","e","-","g","p","u">>,
     <<"m","o","c","h","i","t","e","s","t","-","c","h","r","o","m","e">>,
     <<"m","o","c","h","i","t","e","s","t","-","d","e","v","t","o","o","l","s","-","c","h","r","o","m","e">>,
     <<"m","o","c","h","i","t","e","s","t","-","b","r","o","w","s","e","r","-","c","h","r","o","m","e">>,
     <<"w","e","b","-","p","l","a","t","f","o","r","m","-","t","e","s","t","s","-","c","r","a","s","h","t","e","s","t">>,
     <<"w","e","b","-","p","l","a","t","f","o","r","m","-","t","e","s","t","s","-","r","e","f","t","e","s","t">>,
     <<"w","e","b","-","p","l","a","t","f","o","r","m","-","t","e","s","t","s","-","w","d","s","p","e","c">>,
     <<"w","e","b","-","p","l","a","t","f","o","r","m","-","t","e","s","t","s","-","p","r","i","n","t","-","r","e","f","t","e","s","t">>,
     <<"w","e","b","-","p","l","a","t","f","o","r","m","-","t","e","s","t","s">>,
     <<"m","o","c","h","i","t","e","s","t","-","m","e","d","i","a">>,
     <<"m","o","c","h","i","t","e","s","t","-","w","e","b","g","p","u">>,
     <<"m","o","c","h","i","t","e","s","t","-","w","e","b","g","l","1","-","e","x","t">>,
     <<"m","o","c","h","i","t","e","s","t","-","w","e","b","g","l","2","-","e","x","t">>,
     <<"m","o","c","h","i","t","e","s","t","-","w","e","b","g","l","1","-","c","o","r","e">>,
     <<"m","o","c","h","i","t","e","s","t","-","w","e","b","g","l","2","-","c","o","r","e">>,
     <<"m","o","c","h","i","t","e","s","t","-","r","e","m","o","t","e">>,
     <<"m","o","c","h","i","t","e","s","t","-","a","1","1","y">>,
     <<"x","p","c","s","h","e","l","l">>,
     <<"c","r","a","s","h","t","e","s","t">>,
     <<"j","s","r","e","f","t","e","s","t">>,
     <<"r","e","f","t","e","s","t","-","n","o","-","a","c","c","e","l">>,
     <<"g","t","e","s","t">>,
     <<"t","e","l","e","m","e","t","r","y","-","t","e","s","t","s","-","c","l","i","e","n","t">>,
     <<"b","r","o","w","s","e","r","-","s","c","r","e","e","n","s","h","o","t","s">>,
     <<"m","a","r","i","o","n","e","t","t","e","-","g","p","u">>,
     <<"m","a","r","i","o","n","e","t","t","e">>,
     <<"c","p","p","u","n","i","t">>,
     <<"f","i","r","e","f","o","x","-","u","i","-","f","u","n","c","t","i","o","n","a","l","-","r","e","m","o","t","e">>,
     <<"f","i","r","e","f","o","x","-","u","i","-","f","u","n","c","t","i","o","n","a","l","-","l","o","c","a","l">>,
     <<"r","e","f","t","e","s","t">>,
     <<"j","u","n","i","t">>,
     <<"t","e","s","t","-","v","e","r","i","f","y">>,
     <<"t","e","s","t","-","c","o","v","e","r","a","g","e">>,
     <<"j","i","t","t","e","s","t">> >>

\* f"-{s}-"
Bracketed(s) == <<"-">> \o s \o <<"-">>

\* One iteration of the loop over SUITES: the whole suite name is replaced
\* wherever it occurs when its bracketed form occurs somewhere.
RemoveSuite(config, s) ==
  IF Contains(config, Bracketed(s)) THEN Replace(config, s, <<"*">>) ELSE config

\* The loop "for s in SUITES" over the suites lo..hi, in table order.  The range
\* is walked as two consecutive halves, the first half finished before the
\* second starts, so that the evaluation stays shallow.
RECURSIVE RemoveSuites(_, _, _)
RemoveSuites(config, lo, hi) ==
  IF lo = hi THEN RemoveSuite(config, SUITES[lo])
  ELSE LET mid == (lo + hi) \div 2
           half == RemoveSuites(config, lo, mid)
       IN  IF Len(half) >= 0 THEN RemoveSuites(half, mid + 1, hi) ELSE half

\* A faulty variant of the chunk removal below: the chunk is kept.
RemoveChunk_Kept(config) == Join(Split(config, "-"), <<"-">>)

\* Drops a trailing purely numeric part.
RemoveChunk(config) ==
  LET parts == Split(config, "-")
  IN  Join(IF IsDigit(parts[Len(parts)]) THEN SubSeq(parts, 1, Len(parts) - 1) ELSE parts,
           <<"-">>)

get_configuration_from_label(label) == RemoveChunk(RemoveSuites(label, 1, Len(SUITES)))

NO_GROUPS_SUITES ==
  << <<"r","a","p","t","o","r">>,
     <<"t","a","l","o","s">>,
     <<"a","w","s","y">>,
     <<"g","t","e","s","t">>,
     <<"c","p","p","u","n","i","t">>,
     <<"t","e","l","e","m","e","t","r","y","-","t","e","s","t","s">>,
     <<"f","i","r","e","f","o","x","-","u","i","-","f","u","n","c","t","i","o","n","a","l">>,
     <<"j","u","n","i","t">>,
     <<"j","i","t","t","e","s","t">>,
     <<"m","a","r","i","o","n","e","t","t","e">> >>

is_no_groups_suite(label) ==
  \E i \in 1..Len(NO_GROUPS_SUITES) : Contains(label, Bracketed(NO_GROUPS_SUITES[i]))

\* os.path.isabs on a POSIX host
IsAbs(group) == StartsWith(group, <<"/">>)

\* The logging side effect is not modelled; task_id is only used by it.
is_bad_group(group) ==
  \/ Strip(group) = <<>>
  \/ StartsWith(group, <<"f","i","l","e",":","/","/">>)
  \/ StartsWith(group, <<"Z",":">>)
  \/ IsAbs(group)
  \/ Contains(group, <<"\\">>)

\* The assertion of wpt_workaround fails on this group.
WptAssertFails(group) == Strip(group) # <<>> /\ ~StartsWith(group, <<"/">>)

\* The value wpt_workaround returns when its assertion passes.
wpt_workaround(group) ==
  IF Strip(group) = <<>> THEN group
  ELSE IF StartsWith(group, <<"/","_","m","o","z","i","l","l","a","/">>)
       THEN Join(<<<<"t","e","s","t","i","n","g","/","w","e","b","-","p","l","a","t","f","o","r","m","/","m","o","z","i","l","l","a","/","t","e","s","t","s">>,
                   DropFirst(group, Len(<<"/","_","m","o","z","i","l","l","a","/">>))>>, <<"/">>)
       ELSE Join(<<<<"t","e","s","t","i","n","g","/","w","e","b","-","p","l","a","t","f","o","r","m","/","t","e","s","t","s">>, DropFirst(group, 1)>>, <<"/">>)

WptMarkers == {<<"w","e","b","-","p","l","a","t","f","o","r","m","-","t","e","s","t","s">>, <<"t","e","s","t","-","v","e","r","i","f","y","-","w","p","t">>, <<"t","e","s","t","-","c","o","v","e","r","a","g","e","-","w","p","t">>}

is_wpt(label) == \E s \in WptMarkers : Contains(label, s)

---------------------------------------------------------------------------
(* Bounds of the model.                                                    *)

\* entries in one mapping returned by the test_task_groups fetch
MaxFetch == 2
\* retrieve_results calls on one task
MaxCalls == 2
\* outcomes one summarised task holds
MaxResults == 3
\* outcomes all the tasks of a group summary hold together
MaxOutcomes == 4
\* classified tasks handed to a summary, and the outcomes they hold together
MaxClassifiedTasks == 2
MaxClassifiedResults == 2
\* largest minimum_count passed to the consistency predicates
MaxMinimumCount == 3
\* digits of a chunk number
MaxChunkDigits == 1

SeqsUpTo(S, n) == UNION {[1..k -> S] : k \in 0..n}

---------------------------------------------------------------------------
(* State.                                                                  *)

VARIABLES
  task,                \* the TestTask retrieve_results and errors act on
  slash_group_warned,  \* the module-level flag
  call,                \* the last retrieve_results call: how many were made,
                       \* what the fetch returned (None: not fetched), whether
                       \* it raised AssertionError
  tasks,               \* the list of tasks a summary was built from
  summary,             \* the summary object: kind, name or label, status cache
  out,                 \* the value the last summary operation returned
  pair,                \* two labels handed to get_configuration_from_label
  keys                 \* the configuration keys returned for them

vars == <<task, slash_group_warned, call, tasks, summary, out, pair, keys>>

taskVars == <<task, slash_group_warned, call>>
summaryVars == <<tasks, summary, out>>
configVars == <<pair, keys>>

---------------------------------------------------------------------------
(* TestTask: construction, retrieve_results, errors.                       *)

GroupResult(group, ok, duration) == [group |-> group, ok |-> ok, duration |-> duration]

\* Labels of the tasks: two of no-groups suites, one whose suite name ends the
\* label (so that no "-gtest-" occurs in it) and a web-platform-tests one.
GtestLabel == <<"t","e","s","t","-","l","i","n","u","x","/","o","p","t","-","g","t","e","s","t","-","1","p","r","o","c">>
MarionetteLabel == <<"t","e","s","t","-","l","i","n","u","x","/","o","p","t","-","m","a","r","i","o","n","e","t","t","e","-","e","1","0","s">>
GtestEndLabel == <<"t","e","s","t","-","l","i","n","u","x","/","o","p","t","-","g","t","e","s","t">>
WptLabel == <<"t","e","s","t","-","l","i","n","u","x","/","o","p","t","-","w","e","b","-","p","l","a","t","f","o","r","m","-","t","e","s","t","s","-","e","1","0","s","-","1">>

TaskLabels == {GtestLabel, MarionetteLabel, GtestEndLabel, WptLabel}

\* is_no_groups_suite(self.label) and TestTask.is_wpt, computed once per label
TaskIsNoGroups == [label \in TaskLabels |-> is_no_groups_suite(label)]

TaskIsWpt == [label \in TaskLabels |-> is_wpt(label)]

TaskStates == {"completed", "running"}

\* What data.handler.get("test_task_groups", ...) may hold: one item per group
\* identifier (the keys of a dict are distinct), in iteration order.
FetchItems ==
  { GroupResult(<<>>, FALSE, None),
    GroupResult(<<" ">>, TRUE, Some(1)),
    GroupResult(<<"/">>, TRUE, Some(1)),
    GroupResult(<<"f","i","l","e",":","/","/","x">>, FALSE, Some(2)),
    GroupResult(<<"Z",":","\\","x">>, FALSE, Some(2)),
    GroupResult(<<"/","a">>, TRUE, Some(3)),
    GroupResult(<<"/","a","\\","b">>, TRUE, None),
    GroupResult(<<"/","_","m","o","z","i","l","l","a","/","a">>, FALSE, Some(3)),
    GroupResult(<<"a","/","b",".","i","n","i">>, FALSE, Some(4)) }

FetchedMappings ==
  { m \in SeqsUpTo(FetchItems, MaxFetch) :
      \A i, j \in 1..Len(m) : i # j => m[i].group # m[j].group }

\* What data.handler.get("test_task_errors", ...) may return.
FetchedErrors == {<<>>, <<"error">>}

\* _results handed to the constructor (the dataclass field is public).
ConstructedResults == {None, Some(<<>>), Some(<<GroupResult(<<"a","/","b",".","i","n","i">>, TRUE, Some(4))>>)}

TaskInit ==
  /\ task \in [label : TaskLabels, state : TaskStates,
               _results : ConstructedResults, _errors : {None}]
  /\ slash_group_warned = FALSE
  /\ call = [n |-> 0, fetched |-> None, raised |-> FALSE]

\* [result for result in results if result.group != "/"]
WithoutSlash(results) == SelectSeq(results, LAMBDA r : r.group # <<"/">>)

\* The position of the first result whose group fails wpt_workaround's
\* assertion, 0 when the loop over the results completes.
FirstAssertFailure(results) ==
  IF \E i \in 1..Len(results) : WptAssertFails(results[i].group)
  THEN CHOOSE i \in 1..Len(results) :
         /\ WptAssertFails(results[i].group)
         /\ \A j \in 1..(i - 1) : ~WptAssertFails(results[j].group)
  ELSE 0

\* "for result in results: result.group = wpt_workaround(result.group)", which
\* rewrites the results in place, stopped before position stop (0: not stopped).
Rewritten(results, stop) ==
  [i \in 1..Len(results) |->
     IF stop = 0 \/ i < stop
     THEN [results[i] EXCEPT !.group = wpt_workaround(results[i].group)]
     ELSE results[i]]

\* A faulty variant of the filter below: every result is kept.
WithoutBadGroups_KeepAll(results) == results

\* [result for result in results if not is_bad_group(self.id, result.group)]
WithoutBadGroups(results) == SelectSeq(results, LAMBDA r : ~is_bad_group(r.group))

\* A faulty variant of the branch below: the error list is never assigned.
RetrieveNoGroups_ErrorsUnset ==
  IF task._errors # None \/ task._results # None
  THEN /\ call' = [n |-> call.n + 1, fetched |-> None, raised |-> TRUE]
       /\ UNCHANGED <<task, slash_group_warned>>
  ELSE /\ task' = [task EXCEPT !._results = Some(<<>>)]
       /\ call' = [n |-> call.n + 1, fetched |-> None, raised |-> FALSE]
       /\ UNCHANGED slash_group_warned

\* A faulty variant of the branch below: the second assertion is missing.
RetrieveNoGroups_Unguarded ==
  IF task._errors # None
  THEN /\ call' = [n |-> call.n + 1, fetched |-> None, raised |-> TRUE]
       /\ UNCHANGED <<task, slash_group_warned>>
  ELSE /\ task' = [task EXCEPT !._errors = Some(<<>>), !._results = Some(<<>>)]
       /\ call' = [n |-> call.n + 1, fetched |-> None, raised |-> FALSE]
       /\ UNCHANGED slash_group_warned

\* The branch of retrieve_results for a no-groups suite: two assertions, each
\* after the assignment that precedes it in the code.
RetrieveNoGroups ==
  IF task._errors # None
  THEN /\ call' = [n |-> call.n + 1, fetched |-> None, raised |-> TRUE]
       /\ UNCHANGED <<task, slash_group_warned>>
  ELSE IF task._results # None
  THEN /\ task' = [task EXCEPT !._errors = Some(<<>>)]
       /\ call' = [n |-> call.n + 1, fetched |-> None, raised |-> TRUE]
       /\ UNCHANGED slash_group_warned
  ELSE /\ task' = [task EXCEPT !._errors = Some(<<>>), !._results = Some(<<>>)]
       /\ call' = [n |-> call.n + 1, fetched |-> None, raised |-> FALSE]
       /\ UNCHANGED slash_group_warned

\* The rest of retrieve_results; fetched is None when the state is not
\* "completed" (no fetch), else the mapping the fetch returned.
RetrieveGroups(fetched) ==
  LET results == IF fetched = None THEN <<>> ELSE fetched[1]
  IN  IF TaskIsWpt[task.label]
      THEN LET kept == WithoutSlash(results)
               stop == FirstAssertFailure(kept)
           IN  /\ call' = [n |-> call.n + 1, fetched |-> fetched, raised |-> stop # 0]
               /\ slash_group_warned' =
                    (slash_group_warned \/ \E i \in 1..Len(results) : results[i].group = <<"/">>)
               /\ task' = [task EXCEPT !._results =
                    Some(IF stop # 0 THEN Rewritten(kept, stop)
                         ELSE WithoutBadGroups(Rewritten(kept, 0)))]
      ELSE /\ call' = [n |-> call.n + 1, fetched |-> fetched, raised |-> FALSE]
           /\ UNCHANGED slash_group_warned
           /\ task' = [task EXCEPT !._results = Some(WithoutBadGroups(results))]

\* TestTask.retrieve_results(push)
RetrieveResults ==
  /\ call.n < MaxCalls
  /\ IF TaskIsNoGroups[task.label]
     THEN RetrieveNoGroups
     ELSE \E fetched \in (IF task.state = "completed"
                           THEN {Some(m) : m \in FetchedMappings}
                           ELSE {None}) :
            RetrieveGroups(fetched)
  /\ UNCHANGED <<summaryVars, configVars>>

\* TestTask.errors, read while none are held: they are fetched and kept.
ReadErrors ==
  /\ task._errors = None
  /\ \E errors \in FetchedErrors : task' = [task EXCEPT !._errors = Some(errors)]
  /\ UNCHANGED <<slash_group_warned, call, summaryVars, configVars>>

---------------------------------------------------------------------------
(* Tasks handed to the summaries.                                          *)

\* Two labels that differ in the chunk only, and one on another platform.
LabelA == <<"t","e","s","t","-","l","i","n","u","x","/","o","p","t","-","x","p","c","s","h","e","l","l","-","1">>
LabelB == <<"t","e","s","t","-","l","i","n","u","x","/","o","p","t","-","x","p","c","s","h","e","l","l","-","2">>
LabelC == <<"t","e","s","t","-","w","i","n","/","o","p","t","-","x","p","c","s","h","e","l","l","-","1">>

SummaryLabels == {LabelA, LabelB, LabelC}

GroupG == <<"a","/","b",".","i","n","i">>
GroupH == <<"c",".","i","n","i">>

\* The outcomes a summarised task may hold.
SummaryResults ==
  { GroupResult(GroupG, TRUE, Some(10)),
    GroupResult(GroupG, FALSE, Some(20)),
    GroupResult(GroupH, FALSE, Some(30)) }

\* result, classification and classification_note of the classified tasks
Classified ==
  { [result |-> Some("success"), classification |-> Some("not classified"),
     classification_note |-> None],
    [result |-> Some("success"), classification |-> Some("intermittent"),
     classification_note |-> None],
    [result |-> Some("failed"), classification |-> Some("not classified"),
     classification_note |-> None],
    [result |-> Some("failed"), classification |-> Some("intermittent"),
     classification_note |-> None],
    [result |-> Some("exception"), classification |-> Some("not classified"),
     classification_note |-> Some("intermittent")] }

\* The dataclass defaults of Task: result None, classification "not
\* classified", classification_note None.
Unclassified ==
  [result |-> None, classification |-> Some("not classified"), classification_note |-> None]

NewTask(label, meta, results) ==
  [label |-> label, result |-> meta.result, classification |-> meta.classification,
   classification_note |-> meta.classification_note, _results |-> Some(results)]

\* A faulty variant of Task.failed: "exception" is forgotten.
failed_WithoutException(t) == t.result = Some("failed")

\* Task.failed
failed(t) == t.result \in {Some("failed"), Some("exception")}

\* TestTask.results (the assertion that _results is not None holds of every
\* task built here)
results(t) == t._results[1]

\* TestTask.groups
groups(t) == {results(t)[i].group : i \in 1..Len(results(t))}

\* TestTask.configuration, read from the keys computed once per label
Configurations == [l \in SummaryLabels |-> get_configuration_from_label(l)]

\* A faulty variant of TestTask.configuration: the label is not normalised.
configuration_IsLabel(t) == t.label

configuration(t) == Configurations[t.label]

\* The number of outcomes the tasks hold
RECURSIVE TotalResults(_)
TotalResults(ts) == IF ts = <<>> THEN 0 ELSE Len(results(Head(ts))) + TotalResults(Tail(ts))

\* TestTask(label=..., _results=[...]) appended to the list, before any
\* summary is built from it.
CreateTask ==
  /\ summary = None
  /\ LET room == MaxOutcomes - TotalResults(tasks)
     IN  \E label \in SummaryLabels,
            rs \in SeqsUpTo(SummaryResults, IF room < MaxResults THEN room ELSE MaxResults) :
           /\ Len(rs) > 0
           /\ tasks' = Append(tasks, NewTask(label, Unclassified, rs))
  /\ UNCHANGED <<summary, out, taskVars, configVars>>

\* The same with result and classification given; the outcomes may be empty.
CreateClassifiedTask ==
  /\ summary = None
  /\ Len(tasks) < MaxClassifiedTasks
  /\ \E label \in {LabelA, LabelB}, meta \in Classified,
        rs \in SeqsUpTo(SummaryResults, MaxClassifiedResults - TotalResults(tasks)) :
       tasks' = Append(tasks, NewTask(label, meta, rs))
  /\ UNCHANGED <<summary, out, taskVars, configVars>>

---------------------------------------------------------------------------
(* GroupSummary and LabelSummary.                                          *)

\* GroupSummary(name, tasks): __post_init__ normalises a name that starts
\* with "/" and asserts that every task lists the name; the object exists
\* only when the assertion holds.
NewGroupSummary ==
  /\ summary = None
  /\ \E given \in {GroupG, GroupH, <<"/","a","/","b",".","i","n","i">>} :
       LET name == IF StartsWith(given, <<"/">>) THEN wpt_workaround(given) ELSE given
       IN  /\ \A i \in 1..Len(tasks) : name \in groups(tasks[i])
           /\ summary' = Some([kind |-> "group", name |-> name])
  /\ UNCHANGED <<tasks, out, taskVars, configVars>>

\* LabelSummary(label, tasks): __post_init__ asserts that every task carries
\* the label.
NewLabelSummary ==
  /\ summary = None
  /\ \E label \in SummaryLabels :
       /\ \A i \in 1..Len(tasks) : tasks[i].label = label
       /\ summary' = Some([kind |-> "label", name |-> label])
  /\ UNCHANGED <<tasks, out, taskVars, configVars>>

\* The outcomes for the group, in task then result order, each with the task
\* that owns it.
TaskOutcomes(t, name) ==
  LET rs == SelectSeq(results(t), LAMBDA r : r.group = name)
  IN  [i \in 1..Len(rs) |-> [task |-> t, ok |-> rs[i].ok]]

RECURSIVE GroupOutcomes(_, _)
GroupOutcomes(ts, name) ==
  IF ts = <<>> THEN <<>> ELSE TaskOutcomes(Head(ts), name) \o GroupOutcomes(Tail(ts), name)

\* A faulty variant of the loop body below: the last status of a label wins.
MergeStatus_LastWins(overall, key, status) ==
  [k \in DOMAIN overall \cup {key} |-> IF k = key THEN status ELSE overall[k]]

\* One pass of the loop body of status: the dict entry of the label is set
\* the first time and flipped to INTERMITTENT by a different status.
MergeStatus(overall, key, status) ==
  IF key \notin DOMAIN overall
  THEN [k \in DOMAIN overall \cup {key} |-> IF k = key THEN status ELSE overall[k]]
  ELSE IF status # overall[key] THEN [overall EXCEPT ![key] = INTERMITTENT]
  ELSE overall

RECURSIVE StatusByLabel(_, _, _)
StatusByLabel(outcomes, i, overall) ==
  IF i > Len(outcomes) THEN overall
  ELSE StatusByLabel(outcomes, i + 1,
         MergeStatus(overall, outcomes[i].task.label,
                     IF ~outcomes[i].ok THEN FAIL ELSE PASS))

\* The body of GroupSummary.status
GroupStatus(ts, name) ==
  LET overall_status_by_label == StatusByLabel(GroupOutcomes(ts, name), 1, <<>>)
  IN  IF \E l \in DOMAIN overall_status_by_label : overall_status_by_label[l] = INTERMITTENT
      THEN INTERMITTENT
      ELSE IF \E l \in DOMAIN overall_status_by_label : overall_status_by_label[l] = FAIL
      THEN FAIL
      ELSE PASS

\* The body of LabelSummary.status: None when there is no task
RECURSIVE LabelStatus(_, _, _)
LabelStatus(ts, i, overall_status) ==
  IF i > Len(ts) THEN overall_status
  ELSE LET status == IF failed(ts[i]) THEN FAIL ELSE PASS
       IN  LabelStatus(ts, i + 1,
             IF overall_status = None THEN Some(status)
             ELSE IF Some(status) # overall_status THEN Some(INTERMITTENT)
             ELSE overall_status)

\* What self.status evaluates to.  The property is memoized; the tasks do not
\* change once the summary is built, so every read yields the value of the
\* first one.
StatusValue ==
  IF summary[1].kind = "group" THEN Some(GroupStatus(tasks, summary[1].name))
  ELSE LabelStatus(tasks, 1, None)

\* GroupSummary.classifications
GroupClassifications(ts, name) ==
  LET kept == SelectSeq(ts, LAMBDA t :
                failed(t) /\ \E i \in 1..Len(results(t)) :
                               results(t)[i].group = name /\ ~results(t)[i].ok)
  IN  [i \in 1..Len(kept) |-> <<kept[i].classification, kept[i].classification_note>>]

\* LabelSummary.classifications
LabelClassifications(ts) ==
  LET kept == SelectSeq(ts, LAMBDA t : failed(t))
  IN  [i \in 1..Len(kept) |-> <<kept[i].classification, kept[i].classification_note>>]

classifications ==
  IF summary[1].kind = "group" THEN GroupClassifications(tasks, summary[1].name)
  ELSE LabelClassifications(tasks)

\* A faulty variant of is_intermittent: the note is compared.
is_intermittent_ByNote ==
  \/ StatusValue = Some(INTERMITTENT)
  \/ \E i \in 1..Len(classifications) : classifications[i][2] = Some("intermittent")

\* RunnableSummary.is_intermittent: "for c, n in self.classifications" binds
\* c to the classification and n to the note.
is_intermittent ==
  \/ StatusValue = Some(INTERMITTENT)
  \/ \E i \in 1..Len(classifications) : classifications[i][1] = Some("intermittent")

\* One pass of the loop body of is_config_consistent_failure
AppendResult(config_to_results, config, ok) ==
  [c \in DOMAIN config_to_results \cup {config} |->
     IF c = config
     THEN IF c \in DOMAIN config_to_results THEN Append(config_to_results[c], ok) ELSE <<ok>>
     ELSE config_to_results[c]]

RECURSIVE ResultsByConfig(_, _, _)
ResultsByConfig(outcomes, i, config_to_results) ==
  IF i > Len(outcomes) THEN config_to_results
  ELSE ResultsByConfig(outcomes, i + 1,
         AppendResult(config_to_results, configuration(outcomes[i].task), outcomes[i].ok))

\* any(results)
AnyTrue(oks) == \E i \in 1..Len(oks) : oks[i]

\* A faulty variant of is_config_consistent_failure: a bucket below the
\* threshold counts.
is_config_consistent_failure_AnyBucket(ts, name, minimum_count) ==
  LET config_to_results == ResultsByConfig(GroupOutcomes(ts, name), 1, <<>>)
  IN  IF \A c \in DOMAIN config_to_results : Len(config_to_results[c]) < minimum_count
      THEN None
      ELSE Some(\E c \in DOMAIN config_to_results : ~AnyTrue(config_to_results[c]))

\* GroupSummary.is_config_consistent_failure(minimum_count)
is_config_consistent_failure(ts, name, minimum_count) ==
  LET config_to_results == ResultsByConfig(GroupOutcomes(ts, name), 1, <<>>)
  IN  IF \A c \in DOMAIN config_to_results : Len(config_to_results[c]) < minimum_count
      THEN None
      ELSE Some(\E c \in DOMAIN config_to_results :
                  /\ Len(config_to_results[c]) >= minimum_count
                  /\ ~AnyTrue(config_to_results[c]))

\* A faulty variant of is_cross_config_failure: the passes are not counted.
is_cross_config_failure_AnyFailure(ts, name, minimum_count) ==
  LET states == GroupOutcomes(ts, name)
      nb == Len(states)
      nb_failed == Cardinality({i \in 1..nb : ~states[i].ok})
  IN  IF nb < minimum_count THEN None
      ELSE Some(nb_failed > 0)

\* GroupSummary.is_cross_config_failure(minimum_count)
is_cross_config_failure(ts, name, minimum_count) ==
  LET states == GroupOutcomes(ts, name)
      nb == Len(states)
      nb_passed == Cardinality({i \in 1..nb : states[i].ok})
      nb_failed == nb - nb_passed
  IN  IF nb < minimum_count THEN None
      ELSE Some(nb_failed > 0 /\ nb_passed = 0)

\* What a read or a call on the summary returned.  None of them changes the
\* summary or its tasks, so the first one on a summary reaches every value a
\* later one could return.
Returned(op, minimum_count, value) ==
  Some([op |-> op, minimum_count |-> minimum_count, value |-> value])

\* reading summary.status
ReadStatus ==
  /\ summary # None
  /\ out = None
  /\ out' = Returned("status", 0, StatusValue)
  /\ UNCHANGED <<tasks, summary, taskVars, configVars>>

\* reading summary.is_intermittent, which reads status first
ReadIsIntermittent ==
  /\ summary # None
  /\ out = None
  /\ out' = Returned("is_intermittent", 0, Some(is_intermittent))
  /\ UNCHANGED <<tasks, summary, taskVars, configVars>>

CallIsConfigConsistentFailure ==
  /\ summary # None
  /\ out = None
  /\ summary[1].kind = "group"
  /\ \E minimum_count \in 1..MaxMinimumCount :
       out' = Returned("is_config_consistent_failure", minimum_count,
                       is_config_consistent_failure(tasks, summary[1].name, minimum_count))
  /\ UNCHANGED <<tasks, summary, taskVars, configVars>>

CallIsCrossConfigFailure ==
  /\ summary # None
  /\ out = None
  /\ summary[1].kind = "group"
  /\ \E minimum_count \in 1..MaxMinimumCount :
       out' = Returned("is_cross_config_failure", minimum_count,
                       is_cross_config_failure(tasks, summary[1].name, minimum_count))
  /\ UNCHANGED <<tasks, summary, taskVars, configVars>>

---------------------------------------------------------------------------
(* Labels handed to get_configuration_from_label: a prefix, a suite of the *)
(* SUITES table, what follows the suite, and a chunk number or none.  The  *)
(* two labels of a pair share the prefix and what follows the suite.       *)

LabelPrefixes == {<<>>, <<"t","e","s","t","-","l","i","n","u","x","/","o","p","t","-">>}

LabelRests == {<<>>, <<"-","e","1","0","s">>, <<"-","g","p","u","-","e","1","0","s">>}

LabelSuites ==
  { <<"m","o","c","h","i","t","e","s","t","-","p","l","a","i","n","-","g","p","u">>, <<"m","o","c","h","i","t","e","s","t","-","p","l","a","i","n">>, <<"w","e","b","-","p","l","a","t","f","o","r","m","-","t","e","s","t","s","-","c","r","a","s","h","t","e","s","t">>,
    <<"w","e","b","-","p","l","a","t","f","o","r","m","-","t","e","s","t","s">>, <<"x","p","c","s","h","e","l","l">>, <<"c","r","a","s","h","t","e","s","t">>, <<"j","s","r","e","f","t","e","s","t">>,
    <<"r","e","f","t","e","s","t","-","n","o","-","a","c","c","e","l">>, <<"g","t","e","s","t">>, <<"m","a","r","i","o","n","e","t","t","e","-","g","p","u">>, <<"m","a","r","i","o","n","e","t","t","e">>,
    <<"r","e","f","t","e","s","t">>, <<"t","e","s","t","-","v","e","r","i","f","y">> }

LabelChunks == {None} \cup {Some(c) : c \in SeqsUpTo({"0", "7"}, MaxChunkDigits) \ {<<>>}}

LabelOf(p, i) ==
  p.prefix \o p.suite[i] \o p.rest
    \o (IF p.chunk[i] = None THEN <<>> ELSE <<"-">> \o p.chunk[i][1])

PairInit ==
  pair \in {Some(p) : p \in [prefix : LabelPrefixes, rest : LabelRests,
                             suite : LabelSuites \X LabelSuites,
                             chunk : LabelChunks \X LabelChunks]}

\* get_configuration_from_label called on each label of the pair
GetConfigurations ==
  /\ keys = None
  /\ keys' = Some(<<get_configuration_from_label(LabelOf(pair[1], 1)),
                    get_configuration_from_label(LabelOf(pair[1], 2))>>)
  /\ UNCHANGED <<pair, taskVars, summaryVars>>

---------------------------------------------------------------------------
(* Specifications.                                                         *)

\* A task that is never touched, for the specifications about summaries and
\* configuration keys.
IdleTask ==
  /\ task = [label |-> GtestEndLabel, state |-> "completed", _results |-> None,
             _errors |-> None]
  /\ slash_group_warned = FALSE
  /\ call = [n |-> 0, fetched |-> None, raised |-> FALSE]

NoSummary == tasks = <<>> /\ summary = None /\ out = None

NoPair == pair = None /\ keys = None

\* One TestTask: its outcomes are retrieved, its errors read.
Init == TaskInit /\ NoSummary /\ NoPair

Next == RetrieveResults \/ ReadErrors

Spec == Init /\ [][Next]_vars

\* A GroupSummary over tasks built with their outcomes.
InitGroup == IdleTask /\ NoSummary /\ NoPair

NextGroup ==
  \/ CreateTask
  \/ NewGroupSummary
  \/ ReadStatus
  \/ CallIsConfigConsistentFailure
  \/ CallIsCrossConfigFailure

SpecGroup == InitGroup /\ [][NextGroup]_vars

\* A GroupSummary or a LabelSummary over classified tasks.
InitLabel == IdleTask /\ NoSummary /\ NoPair

NextLabel ==
  \/ CreateClassifiedTask
  \/ NewGroupSummary
  \/ NewLabelSummary
  \/ ReadStatus
  \/ ReadIsIntermittent

SpecLabel == InitLabel /\ [][NextLabel]_vars

\* get_configuration_from_label on pairs of labels.
InitConfig == IdleTask /\ NoSummary /\ PairInit /\ keys = None

NextConfig == GetConfigurations

SpecConfig == InitConfig /\ [][NextConfig]_vars

---------------------------------------------------------------------------
(* Claims about retrieve_results (checked under Spec).                     *)

\* A step is a retrieve_results call.
IsRetrieveCall == call'.n = call.n + 1

\* C7, as stated: on a no-groups label whose outcome list is not populated,
\* retrieve_results completes, fetches nothing and leaves both lists empty,
\* whatever was done to the task before.
C7_AnyHistory ==
  [][(IsRetrieveCall /\ TaskIsNoGroups[task.label] /\ task._results = None)
       => /\ ~call'.raised
          /\ call'.fetched = None
          /\ task'._results = Some(<<>>)
          /\ task'._errors = Some(<<>>)]_vars

\* C7, amended: the same provided the error list is not populated either
\* (the errors property was not read before); when it is populated the call
\* fails on its first assertion and changes nothing, so the outcome list
\* stays unpopulated.
C7_ErrorsNotRead ==
  [][(IsRetrieveCall /\ TaskIsNoGroups[task.label] /\ task._results = None)
       => IF task._errors = None
          THEN /\ ~call'.raised
               /\ call'.fetched = None
               /\ task'._results = Some(<<>>)
               /\ task'._errors = Some(<<>>)
          ELSE /\ call'.raised
               /\ call'.fetched = None
               /\ task' = task]_vars

C7_Witness ==
  /\ TaskIsNoGroups[task.label]
  /\ task.state = "running"
  /\ call.n = 1 /\ ~call.raised /\ call.fetched = None
  /\ task._results = Some(<<>>) /\ task._errors = Some(<<>>)

\* The bad-group predicate as the specification words it.
C8_Bad(group) ==
  \/ \A i \in 1..Len(group) : group[i] \in Whitespace
  \/ (Len(group) >= 7 /\ SubSeq(group, 1, 7) = <<"f","i","l","e",":","/","/">>)
  \/ (Len(group) >= 2 /\ group[1] = "Z" /\ group[2] = ":")
  \/ (Len(group) >= 1 /\ group[1] = "/")
  \/ \E i \in 1..Len(group) : group[i] = "\\"

\* The WPT rewrite as the specification words it.
C8_Rewrite(group) ==
  IF \A i \in 1..Len(group) : group[i] \in Whitespace THEN group
  ELSE IF Len(group) >= 10 /\ SubSeq(group, 1, 10) = <<"/","_","m","o","z","i","l","l","a","/">>
  THEN <<"t","e","s","t","i","n","g","/","w","e","b","-","p","l","a","t","f","o","r","m","/","m","o","z","i","l","l","a","/","t","e","s","t","s","/">> \o SubSeq(group, 11, Len(group))
  ELSE <<"t","e","s","t","i","n","g","/","w","e","b","-","p","l","a","t","f","o","r","m","/","t","e","s","t","s">> \o group

\* The fetched outcomes in fetch order, minus the raw "/" groups on WPT
\* labels and minus the outcomes whose (rewritten, on those labels) group is
\* bad.
C8_Expected(label, fetched) ==
  IF TaskIsWpt[label]
  THEN LET kept == SelectSeq(fetched, LAMBDA r :
                     r.group # <<"/">> /\ ~C8_Bad(C8_Rewrite(r.group)))
       IN  [i \in 1..Len(kept) |-> [kept[i] EXCEPT !.group = C8_Rewrite(kept[i].group)]]
  ELSE SelectSeq(fetched, LAMBDA r : ~C8_Bad(r.group))

C8_Fetched == call.n > 0 /\ ~TaskIsNoGroups[task.label] /\ call.fetched # None

\* C8, as stated: for every label that is not a no-groups suite and every
\* fetched mapping, retrieve_results completes without an error and the
\* outcome list is exactly the expected one.
C8_NeverRaised ==
  C8_Fetched
    => /\ ~call.raised
       /\ task._results = Some(C8_Expected(task.label, call.fetched[1]))

\* A fetched group wpt_workaround refuses: not blank, not "/" (dropped
\* before the rewrite), and not starting with "/".
C8_Refused(fetched) ==
  \E i \in 1..Len(fetched) :
    /\ \E k \in 1..Len(fetched[i].group) : fetched[i].group[k] \notin Whitespace
    /\ fetched[i].group[1] # "/"

\* C8, amended: the call completes and yields exactly the expected list, with
\* no bad group left, on every label that is neither a no-groups suite nor a
\* web-platform-test one, and on a web-platform-test label when every fetched
\* group is blank or starts with "/"; on a web-platform-test label with any
\* other group the call fails with wpt_workaround's assertion.
C8_FilteredUnlessWptRefuses ==
  C8_Fetched
    => IF TaskIsWpt[task.label] /\ C8_Refused(call.fetched[1])
       THEN call.raised
       ELSE /\ ~call.raised
            /\ task._results = Some(C8_Expected(task.label, call.fetched[1]))
            /\ \A i \in 1..Len(task._results[1]) : ~C8_Bad(task._results[1][i].group)

C8_Witness ==
  /\ C8_Fetched
  /\ TaskIsWpt[task.label]
  /\ ~call.raised
  /\ Len(call.fetched[1]) = 2
  /\ Len(task._results[1]) = 1
  /\ \E i \in 1..2 : call.fetched[1][i].group = <<"/","a","\\","b">>

---------------------------------------------------------------------------
(* Claims about GroupSummary (checked under SpecGroup).                    *)

Called(op) == out # None /\ out[1].op = op

\* The positions <<task, result>> of the outcomes for the summarised group.
C_Positions ==
  {q \in (1..Len(tasks)) \X (1..MaxOutcomes + MaxClassifiedResults) :
     /\ q[2] <= Len(tasks[q[1]]._results[1])
     /\ tasks[q[1]]._results[1][q[2]].group = summary[1].name}

C_Ok(q) == tasks[q[1]]._results[1][q[2]].ok

C_Labels == {tasks[i].label : i \in 1..Len(tasks)}

\* The ok flags a label reports for the group.
C_OksOfLabel(l) == {C_Ok(q) : q \in {r \in C_Positions : tasks[r[1]].label = l}}

\* C1: the status of a group summary is INTERMITTENT iff some label has both
\* an ok and a not-ok outcome for the group, else FAIL iff some label has a
\* not-ok outcome for it, else PASS.
C1_StatusIsTwoLevelFold ==
  (Called("status") /\ summary[1].kind = "group")
    => out[1].value =
         Some(IF \E l \in C_Labels : C_OksOfLabel(l) = {TRUE, FALSE} THEN INTERMITTENT
              ELSE IF \E l \in C_Labels : FALSE \in C_OksOfLabel(l) THEN FAIL
              ELSE PASS)

\* Two labels report, two outcomes for the failing one, and the status read
\* is FAIL although the other label passes.
C1_Witness ==
  /\ Called("status")
  /\ summary[1].kind = "group"
  /\ out[1].value = Some(FAIL)
  /\ \E l1, l2 \in C_Labels :
       /\ C_OksOfLabel(l1) = {FALSE}
       /\ C_OksOfLabel(l2) = {TRUE}
       /\ Cardinality({q \in C_Positions : tasks[q[1]].label = l1}) >= 2

C_Configs == {Configurations[l] : l \in C_Labels}

\* The outcomes of a configuration bucket, and the failing ones among them.
C_Bucket(c) == {q \in C_Positions : Configurations[tasks[q[1]].label] = c}

C_BucketFailures(c) == {q \in C_Bucket(c) : ~C_Ok(q)}

\* C4: is_config_consistent_failure(minimum_count) is None iff every bucket
\* holds fewer than minimum_count outcomes; otherwise it is true iff some
\* bucket holds at least minimum_count outcomes, all of them not-ok.
C4_ConfigConsistentFailure ==
  Called("is_config_consistent_failure")
    => LET n == out[1].minimum_count
       IN  out[1].value =
             (IF \A c \in C_Configs : Cardinality(C_Bucket(c)) < n THEN None
              ELSE Some(\E c \in C_Configs :
                          /\ Cardinality(C_Bucket(c)) >= n
                          /\ C_BucketFailures(c) = C_Bucket(c)))

\* The answer is false although a bucket below the threshold holds only
\* failures: another bucket reaches the threshold and holds a pass.
C4_Witness ==
  /\ Called("is_config_consistent_failure")
  /\ out[1].value = Some(FALSE)
  /\ \E c \in C_Configs :
       /\ C_Bucket(c) # {}
       /\ Cardinality(C_Bucket(c)) < out[1].minimum_count
       /\ C_BucketFailures(c) = C_Bucket(c)

\* C5: is_cross_config_failure(minimum_count) is None iff the group has fewer
\* than minimum_count outcomes in all; otherwise it is true iff at least one
\* of them is not-ok and none is ok.
C5_CrossConfigFailure ==
  Called("is_cross_config_failure")
    => out[1].value =
         (IF Cardinality(C_Positions) < out[1].minimum_count THEN None
          ELSE Some(/\ \E q \in C_Positions : ~C_Ok(q)
                    /\ \A q \in C_Positions : ~C_Ok(q)))

\* Failures on two configurations and no pass: the answer is true.
C5_Witness ==
  /\ Called("is_cross_config_failure")
  /\ out[1].value = Some(TRUE)
  /\ Cardinality(C_Configs) = 2
  /\ Cardinality(C_Positions) > out[1].minimum_count

\* The summary is built from exactly the two labels a and b; a reports at
\* least three outcomes for the group, all not-ok, b only ok ones.
C6_Case(a, b) ==
  /\ summary # None
  /\ summary[1].kind = "group"
  /\ a # b
  /\ C_Labels = {a, b}
  /\ C_OksOfLabel(a) = {FALSE}
  /\ C_OksOfLabel(b) = {TRUE}
  /\ Cardinality({q \in C_Positions : tasks[q[1]].label = a}) >= 3

C6_Answers(config_consistent) ==
  /\ Called("status") => out[1].value = Some(FAIL)
  /\ (Called("is_config_consistent_failure") /\ out[1].minimum_count = 3)
       => out[1].value = Some(config_consistent)
  /\ (Called("is_cross_config_failure") /\ out[1].minimum_count = 2)
       => out[1].value = Some(FALSE)

\* C6, as stated: for every such pair of labels the status is FAIL,
\* is_config_consistent_failure(3) is true and is_cross_config_failure(2) is
\* false, also when the configuration keys of the two labels coincide.
C6_AnyPairOfLabels ==
  \A a, b \in SummaryLabels : C6_Case(a, b) => C6_Answers(TRUE)

\* C6, amended: this holds for the pairs whose configuration keys differ;
\* when the keys coincide the two labels share one bucket, which holds the
\* passes of b, and is_config_consistent_failure(3) is false (the status is
\* still FAIL and is_cross_config_failure(2) still false).
C6_ByConfigurationKey ==
  \A a, b \in SummaryLabels :
    C6_Case(a, b) => C6_Answers(Configurations[a] # Configurations[b])

C6_Witness ==
  /\ Called("is_config_consistent_failure")
  /\ out[1].minimum_count = 3
  /\ out[1].value = Some(TRUE)
  /\ \E a, b \in SummaryLabels : C6_Case(a, b) /\ Configurations[a] # Configurations[b]

---------------------------------------------------------------------------
(* Claims about LabelSummary and is_intermittent (checked under SpecLabel).*)

C_Failed(t) == t.result = Some("failed") \/ t.result = Some("exception")

C_AllFailed == \A i \in 1..Len(tasks) : C_Failed(tasks[i])

C_NoneFailed == \A i \in 1..Len(tasks) : ~C_Failed(tasks[i])

C2_Case == Called("status") /\ summary[1].kind = "label"

\* C2, as stated: for every list of tasks of the label the status is one of
\* PASS, FAIL and INTERMITTENT: FAIL when every task is failed, PASS when no
\* task is failed, INTERMITTENT when some are and some are not.
C2_AnyList ==
  C2_Case
    => /\ out[1].value \in {Some(st) : st \in Status}
       /\ C_AllFailed => out[1].value = Some(FAIL)
       /\ C_NoneFailed => out[1].value = Some(PASS)
       /\ (~C_AllFailed /\ ~C_NoneFailed) => out[1].value = Some(INTERMITTENT)

\* C2, amended: this holds for every non-empty list of tasks; for the empty
\* list the status is None, none of the three values.
C2_NonEmptyList ==
  C2_Case
    => IF tasks = <<>> THEN out[1].value = None
       ELSE /\ out[1].value \in {Some(st) : st \in Status}
            /\ C_AllFailed => out[1].value = Some(FAIL)
            /\ C_NoneFailed => out[1].value = Some(PASS)
            /\ (~C_AllFailed /\ ~C_NoneFailed) => out[1].value = Some(INTERMITTENT)

\* A task that passed before one that ended in an exception: INTERMITTENT.
C2_Witness ==
  /\ C2_Case
  /\ Len(tasks) = 2
  /\ tasks[1].result = Some("success")
  /\ tasks[2].result = Some("exception")
  /\ out[1].value = Some(INTERMITTENT)

\* The tasks whose (classification, classification_note) pair is among the
\* classifications of the summary.
C3_Classified ==
  {i \in 1..Len(tasks) :
     /\ C_Failed(tasks[i])
     /\ summary[1].kind = "group"
          => \E q \in C_Positions : q[1] = i /\ ~C_Ok(q)}

C3_Case == Called("is_intermittent")

\* The status of the summary is INTERMITTENT: for a group, some label has an
\* ok and a not-ok outcome for it or, for a label, some task failed and some
\* did not.
C3_StatusIsIntermittent ==
  IF summary[1].kind = "group"
  THEN \E l \in C_Labels : C_OksOfLabel(l) = {TRUE, FALSE}
  ELSE ~C_AllFailed /\ ~C_NoneFailed

C3_StatusIsFail ==
  IF summary[1].kind = "group"
  THEN /\ \E l \in C_Labels : C_OksOfLabel(l) = {FALSE}
       /\ ~C3_StatusIsIntermittent
  ELSE tasks # <<>> /\ C_AllFailed

\* C3, as stated: is_intermittent is true iff the status is INTERMITTENT or
\* the classification note of some pair is "intermittent".
C3_ByNote ==
  C3_Case
    => out[1].value =
         Some(\/ C3_StatusIsIntermittent
              \/ \E i \in C3_Classified : tasks[i].classification_note = Some("intermittent"))

\* C3, amended: it is the classification, the first field of a pair, that is
\* compared with "intermittent"; a note equal to "intermittent" has no effect.
C3_ByClassification ==
  C3_Case
    => out[1].value =
         Some(\/ C3_StatusIsIntermittent
              \/ \E i \in C3_Classified : tasks[i].classification = Some("intermittent"))

\* A group summary whose status is FAIL and whose only pair is classified
\* "intermittent" with no note: is_intermittent is true.
C3_Witness ==
  /\ C3_Case
  /\ summary[1].kind = "group"
  /\ C3_StatusIsFail
  /\ out[1].value = Some(TRUE)
  /\ \A i \in C3_Classified : tasks[i].classification_note = None
  /\ C3_Classified # {}

---------------------------------------------------------------------------
(* Claims about get_configuration_from_label (checked under SpecConfig).   *)

C9_Delimited(p, i) ==
  LET label == LabelOf(p, i)
      first == Len(p.prefix) + 1
      last == Len(p.prefix) + Len(p.suite[i])
  IN  /\ first > 1 /\ label[first - 1] = "-"
      /\ last < Len(label) /\ label[last + 1] = "-"
      /\ \A n \in 1..Len(SUITES) : \A k \in 1..Len(label) :
           (k + Len(SUITES[n]) - 1 <= Len(label)
              /\ SubSeq(label, k, k + Len(SUITES[n]) - 1) = SUITES[n])
             => (first <= k /\ k + Len(SUITES[n]) - 1 <= last)

=============================================================================
